---------------------------- MODULE Spec2Model ----------------------------
(***************************************************************************)
(* Model of src/app.py: the match-detail engine behind /stats/{match_id}   *)
(* (status lookup, in-match clock, event extraction, period segmentation,  *)
(* timeline assembly) and the request pipeline get_match_data.             *)
(*                                                                         *)
(* Text is modelled as a sequence of one-character strings, so that        *)
(* formatting (str, f-strings) and parsing (int, re.match) are computed    *)
(* character by character.  The Arabic literals of the source are written  *)
(* with the English labels the specification gives them.                   *)
(***************************************************************************)
EXTENDS Integers, Sequences, FiniteSets, TLC

VARIABLES
    pc,         \* position of the call in progress
    input,      \* the arguments / the scraped document the call works on
    result,     \* the value the call returned (or the exception it raised)
    hashSeed,   \* str hash seed of the running interpreter (set at start-up)
    trace       \* what the process has done so far (steps run, calls answered)

vars == <<pc, input, result, hashSeed, trace>>

---------------------------------------------------------------------------
(* Text helpers *)

\* Python's None, kept apart from every text (texts hold single characters)
None == <<"None">>

DigitChars == <<"0", "1", "2", "3", "4", "5", "6", "7", "8", "9">>

IsDigit(c) == \E i \in 1..10 : DigitChars[i] = c

DigitVal(c) == (CHOOSE i \in 1..10 : DigitChars[i] = c) - 1

\* str(n) for an integer n
RECURSIVE NatStr(_)
NatStr(n) == IF n < 10 THEN <<DigitChars[n + 1]>>
             ELSE NatStr(n \div 10) \o <<DigitChars[(n % 10) + 1]>>

Str(n) == IF n < 0 THEN <<"-">> \o NatStr(0 - n) ELSE NatStr(n)

AllDigits(s) == Len(s) > 0 /\ \A i \in 1..Len(s) : IsDigit(s[i])

\* value of a non-empty run of digits
RECURSIVE DigitsVal(_)
DigitsVal(s) == IF Len(s) = 0 THEN 0
                ELSE 10 * DigitsVal(SubSeq(s, 1, Len(s) - 1)) + DigitVal(s[Len(s)])

\* int(s): an optional sign and digits; anything else raises ValueError
PyIntOk(s) == \/ AllDigits(s)
              \/ Len(s) > 1 /\ s[1] \in {"+", "-"} /\ AllDigits(Tail(s))

PyInt(s) == IF AllDigits(s) THEN DigitsVal(s)
            ELSE IF s[1] = "-" THEN 0 - DigitsVal(Tail(s))
            ELSE DigitsVal(Tail(s))

\* s.split(c)[0]: the text before the first c (all of s when c does not occur)
RECURSIVE SplitHead(_, _)
SplitHead(s, c) == IF Len(s) = 0 \/ s[1] = c THEN <<>>
                   ELSE <<s[1]>> \o SplitHead(Tail(s), c)

\* the longest prefix of s made of digits
RECURSIVE LeadingDigits(_)
LeadingDigits(s) == IF Len(s) = 0 \/ ~IsDigit(s[1]) THEN <<>>
                    ELSE <<s[1]>> \o LeadingDigits(Tail(s))

---------------------------------------------------------------------------
(* Status table *)

STATUS_MAP ==
    ( Str(0)  :> "not started" )            @@
    ( Str(1)  :> "first half" )             @@
    ( Str(2)  :> "half-time" )              @@
    ( Str(3)  :> "second half" )            @@
    ( Str(4)  :> "finished" )               @@
    ( Str(5)  :> "transition to extra time" ) @@
    ( Str(7)  :> "extra time first half" )  @@
    ( Str(8)  :> "end of extra time first half" ) @@
    ( Str(9)  :> "extra time second half" ) @@
    ( Str(10) :> "end of extra time second half" ) @@
    ( Str(11) :> "penalty shootout" )       @@
    ( Str(12) :> "match suspended" )

NOT_LIVE == {Str(0), Str(4), Str(12)}

\* STATUS_MAP.get(status_value, <unknown>)
StatusText(status_value) ==
    IF status_value \in DOMAIN STATUS_MAP THEN STATUS_MAP[status_value]
    ELSE "unknown"

---------------------------------------------------------------------------
(* In-match clock *)

\* the nominal length of the period a status code stands for (0: no base)
PeriodBase(status_value) ==
    IF status_value = Str(1) THEN 45
    ELSE IF status_value = Str(3) THEN 90
    ELSE IF status_value = Str(7) THEN 105
    ELSE IF status_value = Str(9) THEN 120
    ELSE 0

\* compute_time_expr with the stoppage minute counted from zero
compute_time_expr_zero_based(status_value, time_value) ==
    IF time_value = None \/ time_value = <<>> \/ time_value = <<"0">> THEN None
    ELSE IF ~PyIntOk(SplitHead(time_value, ":")) THEN None
    ELSE LET minutes == PyInt(SplitHead(time_value, ":"))
             base    == PeriodBase(status_value)
         IN  IF base = 0 THEN Str(minutes + 1)
             ELSE IF minutes >= base
                  THEN Str(base) \o <<"+">> \o Str(minutes - base)
                  ELSE Str(minutes + 1)

compute_time_expr(status_value, time_value) ==
    IF time_value = None \/ time_value = <<>> \/ time_value = <<"0">> THEN None
    ELSE IF ~PyIntOk(SplitHead(time_value, ":")) THEN None
    ELSE LET minutes == PyInt(SplitHead(time_value, ":"))
             base    == PeriodBase(status_value)
         IN  IF base = 0 THEN Str(minutes + 1)
             ELSE IF minutes >= base
                  THEN Str(base) \o <<"+">> \o Str((minutes - base) + 1)
                  ELSE Str(minutes + 1)

\* parse_time_parts without the sentinel: a text that does not parse counts
\* as minute zero
parse_time_parts_as_zero(time_str) ==
    IF time_str = None \/ time_str = <<>> THEN <<0, 0>>
    ELSE LET d1   == LeadingDigits(time_str)
             rest == SubSeq(time_str, Len(d1) + 1, Len(time_str))
             d2   == IF Len(rest) > 0 /\ rest[1] = "+"
                     THEN LeadingDigits(Tail(rest)) ELSE <<>>
         IN  IF Len(d1) = 0 THEN <<0, 0>>
             ELSE <<DigitsVal(d1), IF Len(d2) > 0 THEN DigitsVal(d2) ELSE 0>>

parse_time_parts(time_str) ==
    IF time_str = None \/ time_str = <<>> THEN <<-1, -1>>
    ELSE LET d1   == LeadingDigits(time_str)
             rest == SubSeq(time_str, Len(d1) + 1, Len(time_str))
             d2   == IF Len(rest) > 0 /\ rest[1] = "+"
                     THEN LeadingDigits(Tail(rest)) ELSE <<>>
         IN  IF Len(d1) = 0 THEN <<-1, -1>>
             ELSE <<DigitsVal(d1), IF Len(d2) > 0 THEN DigitsVal(d2) ELSE 0>>

time_in_range(t, start, end) ==
    LET base == parse_time_parts(t)[1] IN start <= base /\ base <= end

---------------------------------------------------------------------------
(* SpecTime: compute_time_expr applied to a status code and a counter *)

MaxMinute == 123

MaxStatus == 13

\* the value of <input id="match_status">: absent, or a code
StatusValues == {None} \cup {Str(c) : c \in 0..MaxStatus}

\* the value of <input id="match_time">: absent, empty, the zero value,
\* minutes:seconds, bare minutes, a negative counter, and text
TimeValues ==
    {None, <<>>, <<"0">>, <<"x">>, <<"x", ":", "0", "0">>, <<"-", "1", ":", "0", "0">>,
     <<"4", "4">>, <<":", "3", "0">>}
    \cup {Str(m) \o s : m \in 0..MaxMinute,
                         s \in {<<":", "0", "0">>, <<":", "5", "9">>}}

TimeInit ==
    /\ pc = "compute_time_expr"
    /\ input \in [status_value : StatusValues, time_value : TimeValues]
    /\ result = None
    /\ hashSeed = 0
    /\ trace = <<>>

ComputeTimeExpr ==
    /\ pc = "compute_time_expr"
    /\ result' = compute_time_expr(input.status_value, input.time_value)
    /\ pc' = "returned"
    /\ UNCHANGED <<input, hashSeed, trace>>

SpecTime == TimeInit /\ [][ComputeTimeExpr]_vars

\* an elapsed value of the shape M:SS with M >= 0, and its M
IsMinSec(tv) ==
    /\ tv # None
    /\ Len(tv) > Len(SplitHead(tv, ":"))
    /\ AllDigits(SplitHead(tv, ":"))

MinutesOf(tv) == DigitsVal(SplitHead(tv, ":"))

\* C1: for an elapsed value M:SS with M >= 0, compute_time_expr returns
\* "base+(M-base+1)" when the status is 1, 3, 7 or 9 (base 45, 90, 105, 120)
\* and M >= base, and the text of M+1 without a plus sign in every other
\* case; (1, "44:00") gives "45" and (3, "91:00") gives "90+2".
C1_TimeExpr ==
    (pc = "returned" /\ IsMinSec(input.time_value)) =>
        LET M  == MinutesOf(input.time_value)
            st == input.status_value
            base == CASE st = <<"1">> -> 45
                      [] st = <<"3">> -> 90
                      [] st = <<"7">> -> 105
                      [] st = <<"9">> -> 120
                      [] OTHER -> 0
        IN  /\ (base > 0 /\ M >= base) =>
                  result = Str(base) \o <<"+">> \o Str(M - base + 1)
            /\ ~(base > 0 /\ M >= base) =>
                  (result = Str(M + 1) /\ \A i \in 1..Len(result) : result[i] # "+")
            /\ (st = <<"1">> /\ input.time_value = <<"4", "4", ":", "0", "0">>)
                  => result = <<"4", "5">>
            /\ (st = <<"3">> /\ input.time_value = <<"9", "1", ":", "0", "0">>)
                  => result = <<"9", "0", "+", "2">>

C1_Witness ==
    /\ pc = "returned"
    /\ input.status_value = <<"3">>
    /\ input.time_value = <<"9", "1", ":", "0", "0">>
    /\ result = <<"9", "0", "+", "2">>

---------------------------------------------------------------------------
(* adjust_match_time: the kick-off time of the supplementary panel *)

WhiteSpace == {" ", "\t", "\n"}

\* str.strip()
RECURSIVE Strip(_)
Strip(text) ==
    IF Len(text) = 0 THEN <<>>
    ELSE IF text[1] \in WhiteSpace THEN Strip(Tail(text))
    ELSE IF text[Len(text)] \in WhiteSpace THEN Strip(SubSeq(text, 1, Len(text) - 1))
    ELSE text

\* str.split(): the words between runs of white space
RECURSIVE Words(_)
Words(text) ==
    IF Len(text) = 0 THEN <<>>
    ELSE IF text[1] \in WhiteSpace THEN Words(Tail(text))
    ELSE LET n == IF \E i \in 1..Len(text) : text[i] \in WhiteSpace
                  THEN (CHOOSE i \in 1..Len(text) :
                           /\ text[i] \in WhiteSpace
                           /\ \A j \in 1..(i - 1) : text[j] \notin WhiteSpace) - 1
                  ELSE Len(text)
         IN  <<SubSeq(text, 1, n)>> \o Words(SubSeq(text, n + 1, Len(text)))

\* str.split(c): the parts between the occurrences of c
RECURSIVE SplitOn(_, _)
SplitOn(text, c) ==
    LET head == SplitHead(text, c)
    IN  IF Len(head) = Len(text) THEN <<text>>
        ELSE <<head>> \o SplitOn(SubSeq(text, Len(head) + 2, Len(text)), c)

\* word in text
Contains(text, word) ==
    \E i \in 1..(Len(text) - Len(word) + 1) :
        SubSeq(text, i, i + Len(word) - 1) = word

\* The words for the evening and the morning, each with and without its
\* final mark, the Arabic letters written one Latin letter each.
EVENING_MARKED == <<"m", "s", "a", "A", "N">>

EVENING == <<"m", "s", "a", "A">>

MORNING_MARKED == <<"S", "b", "a", "H", "a", "N">>

MORNING == <<"S", "b", "a", "H", "a">>

\* f"{n:02d}"
Fmt02(n) == IF n < 0 THEN Str(n)
            ELSE IF n < 10 THEN <<"0">> \o Str(n)
            ELSE Str(n)

\* the hour on the 24-hour clock
to_24_hour(hours, period) ==
    IF Contains(period, EVENING_MARKED) \/ Contains(period, EVENING)
    THEN (IF hours # 12 THEN hours + 12 ELSE hours)
    ELSE IF Contains(period, MORNING_MARKED) \/ Contains(period, MORNING)
    THEN (IF hours = 12 THEN 0 ELSE hours)
    ELSE hours

\* hours += 8 that is not brought back under 24
plus_eight_no_wrap(hours) == hours + 8

\* hours += 8; if hours >= 24: hours -= 24
plus_eight(hours) == IF hours + 8 >= 24 THEN (hours + 8) - 24 ELSE hours + 8

\* adjust_match_time: whatever raises inside the try block gives the
\* (stripped) text back
adjust_match_time(time_str) ==
    LET stripped == Strip(time_str)
        words    == Words(stripped)
    IN  IF Len(words) = 0 THEN stripped
        ELSE LET time_part == words[1]
                 period    == IF Len(words) > 1 THEN words[2] ELSE <<>>
                 parts     == SplitOn(time_part, ":")
             IN  IF Len(parts) # 2 \/ ~PyIntOk(parts[1]) \/ ~PyIntOk(parts[2])
                 THEN stripped
                 ELSE Fmt02(plus_eight(to_24_hour(PyInt(parts[1]), period)))
                      \o <<":">> \o Fmt02(PyInt(parts[2]))

---------------------------------------------------------------------------
(* extract_info: status, liveness, scores, winner, supplementary panel *)

\* dict.update
DictUpdate(d, u) ==
    [k \in (DOMAIN d) \cup (DOMAIN u) |-> IF k \in DOMAIN u THEN u[k] ELSE d[k]]

\* extract_meeting_info: the panel's rows as title -> content, a later row
\* of the same title replacing an earlier one; the content of the row of
\* the kick-off time goes through adjust_match_time
RECURSIVE extract_meeting_info(_)
extract_meeting_info(panel) ==
    IF Len(panel) = 0 THEN <<>>
    ELSE LET row == panel[Len(panel)]
             content == IF row.title = "match time"
                        THEN adjust_match_time(row.content) ELSE row.content
         IN  DictUpdate(extract_meeting_info(SubSeq(panel, 1, Len(panel) - 1)),
                        row.title :> content)

\* match_div.find("b", class_="win"): the index of the first marked <b>
\* among the <b> elements of the score block (0: none)
WinIndex(b_tags) ==
    IF \E i \in 1..Len(b_tags) : b_tags[i].win
    THEN CHOOSE i \in 1..Len(b_tags) :
            b_tags[i].win /\ \A j \in 1..(i - 1) : ~b_tags[j].win
    ELSE 0

\* the winner side, looked for only when the match is finished or suspended
resolve_winner(status_value, b_tags) ==
    IF status_value \in {Str(4), Str(12)} /\ WinIndex(b_tags) > 0 /\ Len(b_tags) >= 2
    THEN (IF WinIndex(b_tags) = 1 THEN "Home" ELSE "Away")
    ELSE ""

\* the liveness flag of a status value
is_live_flag(status_value) ==
    IF status_value \in NOT_LIVE THEN "False" ELSE "True"

\* format_match_time: strptime(raw_time, "%Y-%m-%d %H:%M") needs a blank
\* between the date and the time of day; on a text without one it raises
\* ValueError and raw_time is returned as it is.  compute_time_expr returns
\* only digits and signs, so the shifted date-time is never computed.
format_match_time(raw_time) ==
    CASE \A i \in 1..Len(raw_time) : raw_time[i] # " " -> raw_time

extract_info(soup, teams_info) ==
    LET status_value == soup.status_value
        raw_time == compute_time_expr(status_value, soup.time_value)
        defaults == ("Time"      :> IF raw_time = None THEN None
                                    ELSE format_match_time(raw_time)) @@
                    ("Status"    :> StatusText(status_value)) @@
                    ("Is live"   :> is_live_flag(status_value)) @@
                    ("HomeScore" :> "None") @@
                    ("AwayScore" :> "None") @@
                    ("Winner"    :> "")
        info1 == DictUpdate(teams_info, defaults)
        info2 == DictUpdate(info1, extract_meeting_info(soup.panel))
        b_tags == soup.match_div.b_tags
        scores == IF Len(b_tags) >= 2
                  THEN ("HomeScore" :> b_tags[1].text) @@ ("AwayScore" :> b_tags[2].text)
                  ELSE <<>>
    IN  IF soup.match_div.present
        THEN DictUpdate(DictUpdate(info2, scores),
                        "Winner" :> resolve_winner(status_value, b_tags))
        ELSE info2

---------------------------------------------------------------------------
(* SpecInfo: extract_info applied to a detail document *)

MaxB == 3

MaxPanel == 1

\* the <b> elements of the score block, each marked as the winner or not
BTags == [text : {"1"}, win : BOOLEAN]

SeqsUpTo(S, n) == UNION {[1..k -> S] : k \in 0..n}

MatchDivs ==
    {[present |-> FALSE, b_tags |-> <<>>]}
    \cup {[present |-> TRUE, b_tags |-> b] : b \in SeqsUpTo(BTags, MaxB)}

\* rows of the supplementary panel: free-form titles scraped from the page
PanelRows == {[title |-> "stadium", content |-> "X"],
              [title |-> "referee", content |-> "Y"],
              [title |-> "Winner",  content |-> "Home"],
              [title |-> "match time",
               content |-> <<"9", ":", "3", "0", " ">> \o EVENING_MARKED]}

TeamsInfo == [HomeTeam |-> "H", HomeImgLink |-> "h.png",
              AwayTeam |-> "A", AwayImgLink |-> "a.png"]

InfoInit ==
    /\ pc = "extract_info"
    /\ input \in [status_value : StatusValues,
                  time_value : {None, <<"4", "4", ":", "0", "0">>,
                                <<"9", "1", ":", "0", "0">>},
                  panel : SeqsUpTo(PanelRows, MaxPanel), match_div : MatchDivs]
    /\ result = <<>>
    /\ hashSeed = 0
    /\ trace = <<>>

ExtractInfo ==
    /\ pc = "extract_info"
    /\ result' = extract_info(input, TeamsInfo)
    /\ pc' = "returned"
    /\ UNCHANGED <<input, hashSeed, trace>>

SpecInfo == InfoInit /\ [][ExtractInfo]_vars

\* C7: for a status code of the table the liveness flag is false exactly
\* for 0, 4 and 12; for every code outside the table (6, 13, an absent
\* status field) the text is the "unknown" fallback and the flag is false.
C7_StatusLookup ==
    pc = "returned" =>
        LET st == input.status_value
        IN  /\ st \in DOMAIN STATUS_MAP =>
                  (result["Is live"] = "False" <=> st \in {<<"0">>, <<"4">>, <<"1", "2">>})
            /\ st \notin DOMAIN STATUS_MAP =>
                  (result["Status"] = "unknown" /\ result["Is live"] = "False")

\* C9: the winner side is non-empty only when the status code is 4 or 12;
\* for every other status code, or when no winner marker is found, Winner
\* is the empty string.
C9_WinnerOnlyWhenOver ==
    pc = "returned" =>
        /\ result["Winner"] # "" => input.status_value \in {<<"4">>, <<"1", "2">>}
        /\ (\A i \in 1..Len(input.match_div.b_tags) : ~input.match_div.b_tags[i].win)
              => result["Winner"] = ""

---------------------------------------------------------------------------
(* SpecStats: GET /stats/{match_id}: get_match_stats calling get_match_data *)

MaxTeams == 3

MaxMatchId == 2

MatchIds == {Str(i) : i \in 1..MaxMatchId}

\* what requests.get / raise_for_status may raise
FetchErrors == {"Timeout", "ConnectionError", "HTTPError"}

\* what build_match_info may raise on a feed it cannot take apart
ParseErrors == {"AttributeError", "TypeError"}

\* a .team-item element of the match page: whether it holds an <h3>, an <img>
TeamElems == [h3 : BOOLEAN, img : BOOLEAN]

HTTPException(status_code, detail, cause) ==
    [kind |-> "HTTPException", status_code |-> status_code,
     detail |-> detail, cause |-> cause]

Pending == [kind |-> "pending", status_code |-> 0, detail |-> "", cause |-> ""]

StatsInit ==
    /\ pc = "page_fetch"
    /\ input \in [match_id : MatchIds, page : {<<>>}]
    /\ result = Pending
    /\ hashSeed = 0
    /\ trace = <<>>

\* step 1: requests.get(match_page_url) and raise_for_status succeed
PageFetchOk ==
    /\ pc = "page_fetch"
    /\ \E teams \in SeqsUpTo(TeamElems, MaxTeams) :
          input' = [input EXCEPT !.page = teams]
    /\ trace' = Append(trace, "page_fetch")
    /\ pc' = "team_info"
    /\ UNCHANGED <<result, hashSeed>>

PageFetchFails ==
    /\ pc = "page_fetch"
    /\ \E e \in FetchErrors :
          result' = HTTPException(500, "Failed to load match page", e)
    /\ trace' = Append(trace, "page_fetch")
    /\ pc' = "raised"
    /\ UNCHANGED <<input, hashSeed>>

\* fewer than two .team-item elements
TeamsMissing ==
    /\ pc = "team_info"
    /\ Len(input.page) < 2
    /\ result' = HTTPException(404, "Could not find team info on match page", "")
    /\ pc' = "raised"
    /\ UNCHANGED <<input, hashSeed, trace>>

\* get_team_data: el.find("img") is None, outside every try block
TeamDataRaises ==
    /\ pc = "team_info"
    /\ Len(input.page) >= 2
    /\ \E i \in 1..2 : ~input.page[i].img
    /\ result' = [kind |-> "AttributeError", status_code |-> 0,
                  detail |-> "", cause |-> ""]
    /\ pc' = "raised"
    /\ UNCHANGED <<input, hashSeed, trace>>

TeamInfoOk ==
    /\ pc = "team_info"
    /\ Len(input.page) >= 2
    /\ \A i \in 1..2 : input.page[i].img
    /\ pc' = "api_fetch"
    /\ UNCHANGED <<input, result, hashSeed, trace>>

\* step 2: requests.get(api_url) and raise_for_status succeed
ApiFetchOk ==
    /\ pc = "api_fetch"
    /\ trace' = Append(trace, "api_fetch")
    /\ pc' = "build"
    /\ UNCHANGED <<input, result, hashSeed>>

\* a feed fetch that is tried again after it failed
ApiFetchRetries ==
    /\ pc = "api_fetch"
    /\ trace' = Append(trace, "api_fetch")
    /\ pc' = IF Len(trace) < 3 THEN "api_fetch" ELSE "raised"
    /\ result' = IF Len(trace) < 3 THEN result
                 ELSE HTTPException(500, "Failed to load match API", "Timeout")
    /\ UNCHANGED <<input, hashSeed>>

ApiFetchFails ==
    /\ pc = "api_fetch"
    /\ \E e \in FetchErrors :
          result' = HTTPException(500, "Failed to load match API", e)
    /\ trace' = Append(trace, "api_fetch")
    /\ pc' = "raised"
    /\ UNCHANGED <<input, hashSeed>>

\* step 3: build_match_info returns; get_match_stats wraps the data
BuildOk ==
    /\ pc = "build"
    /\ result' = [kind |-> "response", status_code |-> 200,
                  detail |-> "success", cause |-> ""]
    /\ trace' = Append(trace, "build")
    /\ pc' = "responded"
    /\ UNCHANGED <<input, hashSeed>>

BuildFails ==
    /\ pc = "build"
    /\ \E e \in ParseErrors :
          result' = HTTPException(500, "Failed to parse match data", e)
    /\ trace' = Append(trace, "build")
    /\ pc' = "raised"
    /\ UNCHANGED <<input, hashSeed>>

\* get_match_stats: an HTTPException is raised again as it is, anything
\* else is wrapped
StatsHandler ==
    /\ pc = "raised"
    /\ result' = IF result.kind = "HTTPException" THEN result
                 ELSE HTTPException(500, "Error fetching match stats", result.kind)
    /\ pc' = "responded"
    /\ UNCHANGED <<input, hashSeed, trace>>

StatsNext ==
    \/ PageFetchOk \/ PageFetchFails
    \/ TeamsMissing \/ TeamDataRaises \/ TeamInfoOk
    \/ ApiFetchOk \/ ApiFetchFails
    \/ BuildOk \/ BuildFails
    \/ StatsHandler

SpecStats == StatsInit /\ [][StatsNext]_vars

StepOrder == <<"page_fetch", "api_fetch", "build">>

\* the steps a failure of each kind leaves run
StepsAt(detail) ==
    CASE detail = "Failed to load match page" -> 1
      [] detail = "Failed to load match API" -> 2
      [] detail = "Failed to parse match data" -> 3
      [] OTHER -> 0

\* C10: page fetch, feed fetch and parse run in that order, each at most
\* once; a failing step is reported as its own failure kind, no step runs
\* after a failure, and get_match_stats hands the failure on unchanged.
C10_Pipeline ==
    /\ [](/\ Len(trace) <= 3
          /\ trace = SubSeq(StepOrder, 1, Len(trace))
          /\ (result.kind = "HTTPException" /\ StepsAt(result.detail) > 0)
                => Len(trace) = StepsAt(result.detail))
    /\ [][pc = "raised" => (trace' = trace /\ pc' = "responded")]_vars
    /\ [][pc = "responded" => UNCHANGED vars]_vars
    /\ [][(pc = "raised" /\ result.kind = "HTTPException") => result' = result]_vars
    /\ [][(trace' # trace /\ pc' = "raised") =>
             StepsAt(result'.detail) = Len(trace')]_vars

C10_Witness ==
    /\ pc = "responded"
    /\ trace = <<"page_fetch", "api_fetch">>
    /\ result = HTTPException(500, "Failed to load match API", "Timeout")

---------------------------------------------------------------------------
(* extract_match_events: typed, deduplicated events *)

\* s.replace(c, "")
RECURSIVE RemoveChar(_, _)
RemoveChar(s, c) == IF Len(s) = 0 THEN <<>>
                    ELSE (IF s[1] = c THEN <<>> ELSE <<s[1]>>) \o RemoveChar(Tail(s), c)

\* An event fragment (div.match-event-item):
\*   side       "for-team-a", "for-team-b" or "" (neither class)
\*   event_name the link's event_name, "None" when there is no such link
\*   player_a, player_s  the link's attributes, "None" when absent
\*   yellow_icon  whether a path of fill #ffda46 lies inside
\*   time       the text of div.time, None when there is no such div
\* A missing value of a text attribute is written "None".

GoalNames == {"goal", "penalty", "own goal"}

GoalType(event_name) ==
    CASE event_name = "goal"     -> "goal"
      [] event_name = "penalty"  -> "goal_penalty"
      [] event_name = "own goal" -> "own_goal"

\* whether the loop body reaches the end for the fragment (no continue)
Recognised(f) ==
    /\ f.side \in {"for-team-a", "for-team-b"}
    /\ f.event_name \in {"yellow card", "substitution", "red card"} \cup GoalNames

\* event_data as the loop body leaves it, absent values still in place
event_data(f) ==
    LET team == IF f.side = "for-team-a" THEN "Home" ELSE "Away"
        time == IF f.time = None THEN None ELSE RemoveChar(f.time, "'")
    IN  CASE f.event_name = "yellow card" ->
               [team |-> team, type |-> "yellow card", player_name |-> f.player_a,
                time |-> time]
          [] f.event_name = "substitution" ->
               [team |-> team, type |-> "substitution", player_in |-> f.player_s,
                player_out |-> f.player_a, time |-> time]
          [] f.event_name \in GoalNames ->
               [team |-> team, type |-> GoalType(f.event_name),
                player_name |-> f.player_a,
                assist |-> IF f.player_s = "" THEN "None" ELSE f.player_s,
                time |-> time]
          [] f.event_name = "red card" ->
               [team |-> team,
                type |-> IF f.yellow_icon THEN "second yellow red card" ELSE "red card",
                player_name |-> f.player_a, time |-> time]

\* frozenset((k, v) for k, v in event_data.items() if v is not None)
NonNull(d) ==
    LET keep == {k \in DOMAIN d : IF k = "time" THEN d[k] # None ELSE d[k] # "None"}
    IN  [k \in keep |-> d[k]]

\* e.get("time", "")
TimeOf(e) == IF "time" \in DOMAIN e THEN e.time ELSE <<>>

TimeKey(e) == parse_time_parts(TimeOf(e))

\* tuple comparison of two (base, extra) keys
KeyLE(a, b) == a[1] < b[1] \/ (a[1] = b[1] /\ a[2] <= b[2])

\* list.sort(key = parse_time_parts of the time): stable, ascending: each
\* member goes behind the members before it whose key is not greater
RECURSIVE SortByTime(_)
SortByTime(seq) ==
    IF Len(seq) = 0 THEN <<>>
    ELSE LET x     == seq[Len(seq)]
             kx    == TimeKey(x)
             front == SortByTime(SubSeq(seq, 1, Len(seq) - 1))
             n     == Cardinality({i \in 1..Len(front) : KeyLE(TimeKey(front[i]), kx)})
         IN  SubSeq(front, 1, n) \o <<x>> \o SubSeq(front, n + 1, Len(front))

\* the members of S in one fixed order
RECURSIVE Canon(_)
Canon(S) == IF S = {} THEN <<>>
            ELSE LET x == CHOOSE y \in S : TRUE IN <<x>> \o Canon(S \ {x})

\* the order in which a set of frozensets is iterated: it follows the hashes
\* of the members, which follow the interpreter's str hash seed.  Every
\* order is the order of some seed.
RECURSIVE Permute(_, _)
Permute(seq, seed) ==
    IF Len(seq) = 0 THEN <<>>
    ELSE LET i == (seed % Len(seq)) + 1
         IN  <<seq[i]>>
             \o Permute(SubSeq(seq, 1, i - 1) \o SubSeq(seq, i + 1, Len(seq)),
                        seed \div Len(seq))

SetOrder(S, seed) == Permute(Canon(S), seed)

\* unique_events keyed by team, type and time only: the first fragment of
\* each key is kept
unique_events_by_time(fragments) ==
    LET rec == {j \in 1..Len(fragments) : Recognised(fragments[j])}
        ev(i) == NonNull(event_data(fragments[i]))
        same(i, j) == /\ ev(i).team = ev(j).team
                      /\ ev(i).type = ev(j).type
                      /\ TimeOf(ev(i)) = TimeOf(ev(j))
    IN  {ev(i) : i \in {j \in rec : \A k \in rec : k < j => ~same(k, j)}}

\* the set unique_events
unique_events(fragments) ==
    {NonNull(event_data(fragments[i])) :
        i \in {j \in 1..Len(fragments) : Recognised(fragments[j])}}

extract_match_events(fragments, seed) ==
    SortByTime(SetOrder(unique_events(fragments), seed))

RECURSIVE Fact(_)
Fact(n) == IF n <= 1 THEN 1 ELSE n * Fact(n - 1)

\* the seeds that order a set of at most n members in every way
Seeds(n) == 0..(Fact(n) - 1)

---------------------------------------------------------------------------
(* SpecEvents: extract_match_events applied to a list of fragments *)

MaxFragments == 2

Fragment(side, event_name, player_a, player_s, yellow_icon, time) ==
    [side |-> side, event_name |-> event_name, player_a |-> player_a,
     player_s |-> player_s, yellow_icon |-> yellow_icon, time |-> time]

T20  == <<"2", "0", "'">>

T45p == <<"4", "5", "+", "2", "'">>

EventFragments ==
    { Fragment("for-team-a", "goal", "X", "None", FALSE, T20),
      Fragment("for-team-a", "goal", "X", "", FALSE, <<"2", "0">>),
      Fragment("for-team-a", "goal", "X", "Z", FALSE, T20),
      Fragment("for-team-b", "goal", "X", "None", FALSE, T20),
      Fragment("for-team-a", "penalty", "X", "None", FALSE, T20),
      Fragment("for-team-a", "yellow card", "X", "Z", FALSE, T20),
      Fragment("for-team-a", "yellow card", "X", "None", FALSE, T20),
      Fragment("for-team-a", "red card", "X", "None", TRUE, T45p),
      Fragment("for-team-a", "red card", "X", "None", FALSE, T45p),
      Fragment("for-team-a", "substitution", "X", "Z", FALSE, None),
      Fragment("for-team-a", "substitution", "None", "Z", FALSE, None),
      Fragment("for-team-a", "goal", "X", "None", FALSE, <<>>),
      Fragment("for-team-a", "goal", "X", "None", FALSE, None),
      Fragment("", "goal", "X", "None", FALSE, T20),
      Fragment("for-team-a", "corner", "X", "None", FALSE, T20),
      Fragment("for-team-a", "None", "None", "None", FALSE, T20) }

EventsInit ==
    /\ pc = "extract_match_events"
    /\ input \in [fragments : SeqsUpTo(EventFragments, MaxFragments)]
    /\ result = <<>>
    /\ hashSeed \in Seeds(MaxFragments)
    /\ trace = <<>>

ExtractMatchEvents ==
    /\ pc = "extract_match_events"
    /\ result' = extract_match_events(input.fragments, hashSeed)
    /\ pc' = "returned"
    /\ UNCHANGED <<input, hashSeed, trace>>

SpecEvents == EventsInit /\ [][ExtractMatchEvents]_vars

\* the fields a fragment shows: side, kind, players, time without the mark
SameFields(f, g) ==
    /\ Recognised(f) /\ Recognised(g)
    /\ NonNull(event_data(f)) = NonNull(event_data(g))

\* C4: the events are deduplicated by their full set of non-null fields:
\* fragments with the same team, type, players and time give exactly one
\* event, fragments that differ in a non-null field give distinct events.
C4_Dedup ==
    pc = "returned" =>
        LET fr  == input.fragments
            rec == {i \in 1..Len(fr) : Recognised(fr[i])}
            At(i) == {k \in 1..Len(result) : result[k] = NonNull(event_data(fr[i]))}
        IN  /\ \A i \in rec : Cardinality(At(i)) = 1
            /\ \A i, j \in rec : SameFields(fr[i], fr[j]) <=> At(i) = At(j)
            /\ \A k \in 1..Len(result) : \E i \in rec : k \in At(i)

C4_Witness ==
    /\ pc = "returned"
    /\ Len(input.fragments) = 2
    /\ input.fragments[1] = input.fragments[2]
    /\ Recognised(input.fragments[1])
    /\ Len(result) = 1

C4_WitnessDistinct ==
    /\ pc = "returned"
    /\ Len(input.fragments) = 2
    /\ input.fragments[1].player_s = "None"
    /\ input.fragments[2].player_s = "Z"
    /\ input.fragments[1].event_name = "goal"
    /\ input.fragments[2].event_name = "goal"
    /\ Len(result) = 2

---------------------------------------------------------------------------
(* Period stops, shootout block, and the assembly of the timeline *)

\* the names of the period stops, each one token of text
STOP_ORDER == << <<"Kickoff">>, <<"HalfTime">>, <<"ExtraTime1">>,
                 <<"ExtraTime2">>, <<"ExtraTimeEnd">>, <<"FullTime">> >>

StopNames == {STOP_ORDER[i] : i \in 1..Len(STOP_ORDER)}

HasMark(text) == \E i \in 1..Len(text) : text[i] = "'"

\* text.split("'", 1)[1]
AfterMark(text) ==
    SubSeq(text, Len(SplitHead(text, "'")) + 2, Len(text))

\* extract_time_stops: the titles that hold a ' give a stop with its own time
RECURSIVE extract_time_stops(_)
extract_time_stops(titles) ==
    IF Len(titles) = 0 THEN <<>>
    ELSE (IF HasMark(titles[1])
          THEN << [type |-> "stop", time |-> SplitHead(titles[1], "'"),
                   name |-> AfterMark(titles[1])] >>
          ELSE <<>>) \o extract_time_stops(Tail(titles))

\* extract_match_stops: the titles without a ' that name a period stop,
\* as a dict keyed by the name (the score snapshot is left out)
extract_match_stops(titles) ==
    LET names == {titles[i] : i \in {j \in 1..Len(titles) :
                      ~HasMark(titles[j]) /\ titles[j] \in StopNames}}
    IN  [n \in names |-> [type |-> "stop", name |-> n]]

\* A shootout block (.match-event-item.penalties) is NoBlock or
\*   [has_result, result, teams]: whether it holds a .result element, that
\*   element's text, and its .team-item elements, each
\*   [team_a, names, shots]: whether the class team-a is set, the texts of
\*   the <li> of ol.shots-text, and for each .p-shot-item whether the
\*   class success is set.
NoBlock == [kind |-> "None"]

NoPens == [type |-> "None"]

\* re.findall(r'\d+', text)
RECURSIVE DigitRuns(_)
DigitRuns(text) ==
    IF Len(text) = 0 THEN <<>>
    ELSE IF IsDigit(text[1])
    THEN <<LeadingDigits(text)>>
         \o DigitRuns(SubSeq(text, Len(LeadingDigits(text)) + 1, Len(text)))
    ELSE DigitRuns(Tail(text))

\* pens_score: "a - b" from the first two numbers of the result text
pens_score(pens_block) ==
    IF ~pens_block.has_result THEN <<>>
    ELSE LET scores == DigitRuns(pens_block.result)
         IN  IF Len(scores) >= 2 THEN scores[1] \o <<" ", "-", " ">> \o scores[2]
             ELSE IF Len(scores) = 1 THEN scores[1]
             ELSE <<>>

\* re.split(r"[\(\n]", text)[0]
RECURSIVE BeforeBreak(_)
BeforeBreak(text) ==
    IF Len(text) = 0 \/ text[1] \in {"(", "\n"} THEN <<>>
    ELSE <<text[1]>> \o BeforeBreak(Tail(text))

clean_name(text) == Strip(BeforeBreak(text))

RECURSIVE CleanNames(_)
CleanNames(texts) ==
    IF Len(texts) = 0 THEN <<>>
    ELSE <<clean_name(texts[1])>> \o CleanNames(Tail(texts))

RECURSIVE ShotResults(_)
ShotResults(shots) ==
    IF Len(shots) = 0 THEN <<>>
    ELSE <<IF shots[1] THEN "scored" ELSE "missed">> \o ShotResults(Tail(shots))

\* a pairing that goes on to the end of the longer list
RECURSIVE zip_padded(_, _)
zip_padded(names, shots) ==
    IF Len(names) = 0 /\ Len(shots) = 0 THEN <<>>
    ELSE <<[player |-> IF Len(names) > 0 THEN names[1] ELSE <<>>,
            result |-> IF Len(shots) > 0 THEN shots[1] ELSE "missed"]>>
         \o zip_padded(IF Len(names) > 0 THEN Tail(names) ELSE <<>>,
                       IF Len(shots) > 0 THEN Tail(shots) ELSE <<>>)

\* [{"player": n, "result": s} for n, s in zip(names, shots)]
RECURSIVE zip(_, _)
zip(names, shots) ==
    IF Len(names) = 0 \/ Len(shots) = 0 THEN <<>>
    ELSE <<[player |-> names[1], result |-> shots[1]]>>
         \o zip(Tail(names), Tail(shots))

\* pens_data["PenaltyTakers"] after the loop over the .team-item elements:
\* a later element of the same team name replaces an earlier one
RECURSIVE PenaltyTakers(_)
PenaltyTakers(teams) ==
    IF Len(teams) = 0 THEN <<>>
    ELSE LET team_div  == teams[Len(teams)]
             team_name == IF team_div.team_a THEN "Home" ELSE "Away"
         IN  DictUpdate(PenaltyTakers(SubSeq(teams, 1, Len(teams) - 1)),
                        team_name :> zip(CleanNames(team_div.names),
                                         ShotResults(team_div.shots)))

\* parse_penalties: None without a shootout block
parse_penalties(pens_block) ==
    IF pens_block = NoBlock THEN NoPens
    ELSE [type |-> "pens", name |-> <<"penalty shootout">>,
          pens_score |-> pens_score(pens_block),
          PenaltyTakers |-> PenaltyTakers(pens_block.teams)]

\* [e for e in events if e.get("time") and time_in_range(e["time"], start, end)]
RECURSIVE add_events_in_range(_, _, _)
add_events_in_range(events, start, end) ==
    IF Len(events) = 0 THEN <<>>
    ELSE (IF TimeOf(events[1]) # <<>> /\ time_in_range(events[1].time, start, end)
          THEN <<events[1]>> ELSE <<>>)
         \o add_events_in_range(Tail(events), start, end)

\* windows that share their boundary minute
WindowStartShared(i) == CASE i = 1 -> 1 [] i = 2 -> 45 [] i = 3 -> 90 [] i = 4 -> 105

\* the window of the stop at position i of STOP_ORDER
WindowStart(i) == CASE i = 1 -> 1 [] i = 2 -> 46 [] i = 3 -> 91 [] i = 4 -> 106

\* a last window that stays open after minute 120
WindowEndLate(i) == CASE i = 1 -> 45 [] i = 2 -> 90 [] i = 3 -> 105 [] i = 4 -> 130

WindowEnd(i) == CASE i = 1 -> 45 [] i = 2 -> 90 [] i = 3 -> 105 [] i = 4 -> 120

\* the merged pool left as extended, without the second sort
event_pool_unsorted(doc, seed) ==
    extract_match_events(doc.fragments, seed) \o extract_time_stops(doc.titles)

\* the merged pool: events.extend(time_stops); events.sort(...)
event_pool(doc, seed) ==
    SortByTime(extract_match_events(doc.fragments, seed)
               \o extract_time_stops(doc.titles))

\* one pass of "for name in STOP_ORDER", from position i on
RECURSIVE stop_loop(_, _, _)
stop_loop(i, stops, events) ==
    IF i > Len(STOP_ORDER) THEN <<>>
    ELSE (IF i <= 4 /\ STOP_ORDER[i] \in DOMAIN stops
          THEN <<stops[STOP_ORDER[i]]>>
               \o add_events_in_range(events, WindowStart(i), WindowEnd(i))
          ELSE IF i = 5 /\ STOP_ORDER[i] \in DOMAIN stops
          THEN <<stops[STOP_ORDER[i]]>>
          ELSE <<>>)
         \o stop_loop(i + 1, stops, events)

\* the shootout appended after the FullTime stop
assemble_output_pens_last(doc, seed) ==
    LET stops == extract_match_stops(doc.titles)
    IN  stop_loop(1, stops, event_pool(doc, seed))
        \o (IF STOP_ORDER[6] \in DOMAIN stops THEN <<stops[STOP_ORDER[6]]>> ELSE <<>>)
        \o (IF parse_penalties(doc.pens) # NoPens
            THEN <<parse_penalties(doc.pens)>> ELSE <<>>)

\* the list output as it stands before the return statement
assemble_output(doc, seed) ==
    LET stops == extract_match_stops(doc.titles)
    IN  stop_loop(1, stops, event_pool(doc, seed))
        \o (IF parse_penalties(doc.pens) # NoPens
            THEN <<parse_penalties(doc.pens)>> ELSE <<>>)
        \o (IF STOP_ORDER[6] \in DOMAIN stops THEN <<stops[STOP_ORDER[6]]>> ELSE <<>>)

Reverse(seq) == [i \in 1..Len(seq) |-> seq[Len(seq) + 1 - i]]

\* the returned record: "events" is the list reversed (Info is the result
\* of extract_info, modelled apart; the stats map is left out)
return_value(output) == [events |-> Reverse(output)]

build_match_info(doc, seed) == return_value(assemble_output(doc, seed))

---------------------------------------------------------------------------
(* SpecBuild: build_match_info applied to a detail document *)

MaxEvents == 2

MaxStops == 3

\* event fragments: stoppage time of the first half, two events at the
\* same minute of the second half, the first extra period, a minute
\* outside every window, and no time at all
BuildFragments ==
    << Fragment("for-team-a", "goal", "X", "Z", FALSE, T45p),
       Fragment("for-team-a", "goal", "X", "None", FALSE, <<"4", "6", "'">>),
       Fragment("for-team-b", "yellow card", "Y", "None", FALSE, <<"4", "6", "'">>),
       Fragment("for-team-a", "substitution", "X", "Z", FALSE, <<"1", "0", "0", "'">>),
       Fragment("for-team-b", "red card", "Y", "None", FALSE, <<"1", "2", "1", "'">>),
       Fragment("for-team-a", "goal", "X", "None", FALSE, None) >>

\* titles of div.start-end-match: the six period stops, and titles with a
\* time of their own (first half, second extra period)
StopTitles ==
    STOP_ORDER \o
    << <<"4", "5", "+", "1", "'", "AddedTime">>,
       <<"1", "1", "0", "'", "AddedTime">> >>

\* the lists of at most n members of pool, in the pool's order.  The order
\* of the fragments in the document does not reach the output: the event
\* fragments are read into a set, the period stops into a dict, and the
\* timed titles of the pool, whose times differ, are sorted by time.
ListsOf(pool, n) ==
    {[i \in 1..Len(ix) |-> pool[ix[i]]] :
        ix \in {s \in SeqsUpTo(1..Len(pool), n) :
                   \A i \in 1..(Len(s) - 1) : s[i] <= s[i + 1]}}

\* a shootout block: a result of 4 to 3, one taker of each team
ShootoutBlock ==
    [has_result |-> TRUE, result |-> <<"4", "-", "3">>,
     teams |-> << [team_a |-> TRUE,  names |-> << <<"X">> >>, shots |-> <<TRUE>>],
                  [team_a |-> FALSE, names |-> << <<"Y">> >>, shots |-> <<FALSE>>] >>]

BuildDocs ==
    [fragments : ListsOf(BuildFragments, MaxEvents),
     titles : ListsOf(StopTitles, MaxStops),
     pens : {NoBlock, ShootoutBlock}]

\* the seeds that tell apart the orders of the document's events
DocSeeds(doc) == Seeds(Cardinality(unique_events(doc.fragments)))

BuildInit ==
    /\ pc = "build_match_info"
    /\ input \in BuildDocs
    /\ result = [events |-> <<>>]
    /\ hashSeed \in DocSeeds(input)
    /\ trace = <<>>

\* trace keeps the local list output as it stood before the reversal
BuildMatchInfo ==
    /\ pc = "build_match_info"
    /\ trace' = assemble_output(input, hashSeed)
    /\ result' = return_value(trace')
    /\ pc' = "returned"
    /\ UNCHANGED <<input, hashSeed>>

SpecBuild == BuildInit /\ [][BuildMatchInfo]_vars

Count(seq, v) == Cardinality({i \in 1..Len(seq) : seq[i] = v})

IsTimed(e) == "time" \in DOMAIN e

FullTimeStop == [type |-> "stop", name |-> <<"FullTime">>]

PensAt(seq) == {i \in 1..Len(seq) : seq[i].type = "pens"}

\* C2: no two entries of type "stop" of the returned timeline carry the same
\* name, titles with a time of their own included.
C2_NoRepeatedStopName ==
    pc = "returned" =>
        \A i, j \in 1..Len(result.events) :
            (i # j /\ result.events[i].type = "stop" /\ result.events[j].type = "stop")
                => result.events[i].name # result.events[j].name

\* C3: every entry of the merged event pool is appended to the timeline at
\* most once, whichever period stops are present: no event is emitted
\* under two windows.
C3_EachPoolEntryOnce ==
    pc = "returned" =>
        LET pool == Canon(unique_events(input.fragments))
                    \o extract_time_stops(input.titles)
        IN  \A k \in 1..Len(trace) :
                (IsTimed(trace[k]) \/ trace[k].type \notin {"stop", "pens"})
                    => Count(trace, trace[k]) <= Count(pool, trace[k])

C3_Witness ==
    /\ pc = "returned"
    /\ \E i, j \in 1..Len(trace) :
          /\ IsTimed(trace[i]) /\ IsTimed(trace[j])
          /\ TimeKey(trace[i])[1] = 45
          /\ TimeKey(trace[j])[1] = 46
    /\ <<"Kickoff">> \in DOMAIN extract_match_stops(input.titles)
    /\ <<"HalfTime">> \in DOMAIN extract_match_stops(input.titles)

\* C5: in the sequence assembled before the reversal the entries with a
\* time are in non-decreasing order of (base, extra) over the whole
\* sequence, and the returned list is that sequence reversed.
C5_AscendingThenReversed ==
    pc = "returned" =>
        /\ LET key == [i \in 1..Len(trace) |-> TimeKey(trace[i])]
           IN  \A i, j \in 1..Len(trace) :
                  (i < j /\ IsTimed(trace[i]) /\ IsTimed(trace[j]))
                      => KeyLE(key[i], key[j])
        /\ Len(result.events) = Len(trace)
        /\ \A i \in 1..Len(trace) : result.events[i] = trace[Len(trace) + 1 - i]

C5_Witness ==
    /\ pc = "returned"
    /\ Len(trace) >= 4
    /\ \E i, j \in 1..Len(trace) :
          /\ i < j
          /\ IsTimed(trace[i]) /\ trace[i].type = "stop"
          /\ IsTimed(trace[j]) /\ trace[j].type = "goal"
          /\ TimeKey(trace[i]) = <<45, 1>>
          /\ TimeKey(trace[j]) = <<45, 2>>
    /\ result.events[1] = trace[Len(trace)]

\* C6: a shootout block gives one entry, after every period stop other than
\* FullTime and after every window event, directly before the FullTime
\* stop when there is one: in the returned list FullTime, if present, is
\* first and the shootout entry follows it at once.  Without a shootout
\* block there is no shootout entry.
C6_ShootoutPlacement ==
    pc = "returned" =>
        LET n    == Len(trace)
            full == <<"FullTime">> \in DOMAIN extract_match_stops(input.titles)
        IN  /\ input.pens = NoBlock => PensAt(trace) = {}
            /\ full => (n >= 1 /\ trace[n] = FullTimeStop
                        /\ result.events[1] = FullTimeStop
                        /\ Count(trace, FullTimeStop) = 1)
            /\ ~full => Count(trace, FullTimeStop) = 0
            /\ input.pens # NoBlock =>
                  /\ Cardinality(PensAt(trace)) = 1
                  /\ PensAt(trace) = {IF full THEN n - 1 ELSE n}
                  /\ result.events[IF full THEN 2 ELSE 1].type = "pens"

C6_Witness ==
    /\ pc = "returned"
    /\ input.pens # NoBlock
    /\ Len(trace) >= 4
    /\ trace[1] = [type |-> "stop", name |-> <<"Kickoff">>]
    /\ IsTimed(trace[2])
    /\ result.events[1] = FullTimeStop
    /\ result.events[2].type = "pens"

---------------------------------------------------------------------------
(* SpecCalls: the same document built twice by the service *)

MaxCalls == 2

CallsInit ==
    /\ pc = "serving"
    /\ input \in BuildDocs
    /\ result = [events |-> <<>>]
    /\ hashSeed \in DocSeeds(input)
    /\ trace = <<>>

\* one call of build_match_info on the document; trace keeps what each call
\* returned
Call ==
    /\ pc = "serving"
    /\ Len(trace) < MaxCalls
    /\ result' = build_match_info(input, hashSeed)
    /\ trace' = Append(trace, result'.events)
    /\ UNCHANGED <<pc, input, hashSeed>>

\* the service is started again after a call: the new interpreter draws
\* its str hash seed afresh
Restart ==
    /\ pc = "serving"
    /\ Len(trace) = 1
    /\ \E seed \in DocSeeds(input) : seed # hashSeed /\ hashSeed' = seed
    /\ UNCHANGED <<pc, input, result, trace>>

CallsNext == Call \/ Restart

SpecCalls == CallsInit /\ [][CallsNext]_vars

\* C8: two calls of build_match_info on the same raw input return the same
\* output, the order of the events of equal time included.
C8_SameOutput ==
    \A i, j \in 1..Len(trace) : trace[i] = trace[j]

---------------------------------------------------------------------------
(* SpecSentinel: build_match_info on documents whose times do not parse *)

\* event fragments without a time, with an empty time, with a time that is
\* no minute ("x", "+3"), and with minutes 0, 20 and 45+2
SentinelFragments ==
    << Fragment("for-team-a", "goal", "X", "None", FALSE, None),
       Fragment("for-team-a", "goal", "X", "None", FALSE, <<"'">>),
       Fragment("for-team-b", "yellow card", "Y", "None", FALSE, <<"x", "'">>),
       Fragment("for-team-b", "red card", "Y", "None", FALSE, <<"+", "3", "'">>),
       Fragment("for-team-a", "goal", "X", "None", FALSE, <<"0", "'">>),
       Fragment("for-team-a", "goal", "X", "None", FALSE, T20),
       Fragment("for-team-a", "goal", "X", "Z", FALSE, T45p) >>

\* titles: two period stops, a title whose time is empty, one whose time
\* is no minute, and one in the first half's stoppage time
SentinelTitles ==
    { <<"Kickoff">>, <<"HalfTime">>,
      <<"'", "AddedTime">>,
      <<"x", "'", "Break">>,
      <<"4", "5", "+", "1", "'", "AddedTime">> }

MaxTitles == 2

SentinelInit ==
    /\ pc = "build_match_info"
    /\ input \in [fragments : ListsOf(SentinelFragments, MaxEvents),
                  titles : SeqsUpTo(SentinelTitles, MaxTitles),
                  pens : {NoBlock}]
    /\ result = [events |-> <<>>]
    /\ hashSeed \in DocSeeds(input)
    /\ trace = <<>>

SpecSentinel == SentinelInit /\ [][BuildMatchInfo]_vars

Sentinel == <<-1, -1>>

\* the texts that are no time: empty, or not starting with a digit
NoTime(t) == t = <<>> \/ ~IsDigit(t[1])

\* C11: an event whose time is missing, empty or does not parse has the key
\* (-1,-1); in the sorted pool such entries stand before every entry with a
\* valid time, none of them is in the timeline, and the sort and the
\* assembly give a result (every key is a pair of integers, the call
\* returns a list).
C11_SentinelEvents ==
    pc = "returned" =>
        LET pool == event_pool(input, hashSeed)
            bad  == {i \in 1..Len(pool) : NoTime(TimeOf(pool[i]))}
        IN  /\ \A i \in 1..Len(pool) :
                  /\ TimeKey(pool[i]) \in Int \X Int
                  /\ i \in bad <=> TimeKey(pool[i]) = Sentinel
            /\ \A i \in bad : \A j \in (1..Len(pool)) \ bad : i < j
            /\ \A i \in bad : \A w \in 1..4 :
                  ~time_in_range(TimeOf(pool[i]), WindowStart(w), WindowEnd(w))
            /\ \A k \in 1..Len(trace) :
                  IsTimed(trace[k]) => TimeKey(trace[k]) # Sentinel
            /\ \A i \in bad : Count(trace, pool[i]) = 0
            /\ Len(result.events) = Len(trace)

C11_Witness ==
    /\ pc = "returned"
    /\ <<"Kickoff">> \in DOMAIN extract_match_stops(input.titles)
    /\ \E i, j \in 1..Len(input.fragments) :
          /\ input.fragments[i].time = <<"x", "'">>
          /\ input.fragments[j].time = T20
    /\ \E k \in 1..Len(input.titles) : input.titles[k] = <<"'", "AddedTime">>
    /\ Len(trace) = 2
    /\ TimeKey(trace[2]) = <<20, 0>>

---------------------------------------------------------------------------
(* Fixture dates: parse_arabic_date, datetime values and their order *)

\* A datetime is <<day ordinal, second of the day, microsecond>>; tuples of
\* integers are compared as Python compares them, place by place.

IsLeap(y) == (y % 4 = 0 /\ y % 100 # 0) \/ y % 400 = 0

DaysInMonth(y, m) ==
    CASE m \in {1, 3, 5, 7, 8, 10, 12} -> 31
      [] m \in {4, 6, 9, 11} -> 30
      [] m = 2 -> IF IsLeap(y) THEN 29 ELSE 28

RECURSIVE DaysBeforeMonth(_, _)
DaysBeforeMonth(y, m) ==
    IF m <= 1 THEN 0 ELSE DaysBeforeMonth(y, m - 1) + DaysInMonth(y, m - 1)

\* date.toordinal(): the first of January of year 1 is day 1
Ordinal(y, m, d) ==
    LET p == y - 1
    IN  (365 * p) + (p \div 4) - (p \div 100) + (p \div 400)
        + DaysBeforeMonth(y, m) + d

\* whether datetime(y, m, d) is a date (it raises ValueError otherwise)
ValidDate(y, m, d) ==
    /\ 1 <= y /\ y <= 9999
    /\ 1 <= m /\ m <= 12
    /\ 1 <= d /\ d <= DaysInMonth(y, m)

datetime(y, m, d) == <<Ordinal(y, m, d), 0, 0>>

datetime_min == <<1, 0, 0>>

datetime_max == <<Ordinal(9999, 12, 31), 86399, 999999>>

\* today - timedelta(days = n)
MinusDays(dt, n) == <<dt[1] - n, dt[2], dt[3]>>

\* a <= b for two tuples of integers of the same length
RECURSIVE TupleLE(_, _)
TupleLE(a, b) ==
    IF Len(a) = 0 THEN TRUE
    ELSE IF a[1] # b[1] THEN a[1] < b[1]
    ELSE TupleLE(Tail(a), Tail(b))

\* whether \d{2}-\d{2}-\d{4} matches the text at position i
DateAt(s, i) ==
    /\ i + 9 <= Len(s)
    /\ \A k \in {0, 1, 3, 4, 6, 7, 8, 9} : IsDigit(s[i + k])
    /\ s[i + 2] = "-" /\ s[i + 5] = "-"

NoDate == <<>>

\* parse_arabic_date: the leftmost DD-MM-YYYY of the text as a datetime at
\* midnight; NoDate (None) when there is none or when it is no date
parse_arabic_date(date_str) ==
    LET at == {i \in 1..Len(date_str) : DateAt(date_str, i)}
    IN  IF at = {} THEN NoDate
        ELSE LET i     == CHOOSE j \in at : \A k \in at : j <= k
                 day   == DigitsVal(SubSeq(date_str, i, i + 1))
                 month == DigitsVal(SubSeq(date_str, i + 3, i + 4))
                 year  == DigitsVal(SubSeq(date_str, i + 6, i + 9))
             IN  IF ValidDate(year, month, day) THEN datetime(year, month, day)
                 ELSE NoDate

---------------------------------------------------------------------------
(* The fixture listing: GET /matches and GET /matches/all *)

\* A Match is [match_id, status, date]: the fields the listing reads.  The
\* other fields of Match pass through the handlers as they were scraped.

\* filter_matches_by_date
RECURSIVE filter_matches_by_date(_, _)
filter_matches_by_date(matches, target_date) ==
    IF Len(matches) = 0 THEN <<>>
    ELSE LET match      == matches[1]
             match_date == parse_arabic_date(match.date)
             keep == \/ match_date # NoDate /\ TupleLE(target_date, match_date)
                     \/ match_date = NoDate /\ match.status \in {"live", "upcoming"}
         IN  (IF keep THEN <<match>> ELSE <<>>)
             \o filter_matches_by_date(Tail(matches), target_date)

\* sort_key that puts no match ahead for being live
sort_key_by_date(match) ==
    LET match_date == parse_arabic_date(match.date)
    IN  <<1>> \o (IF match_date # NoDate THEN match_date ELSE datetime_max)

\* sort_key: (0, datetime.min) or (1, date), written as one tuple
sort_key(match) ==
    IF match.status = "live" THEN <<0>> \o datetime_min
    ELSE LET match_date == parse_arabic_date(match.date)
         IN  <<1>> \o (IF match_date # NoDate THEN match_date ELSE datetime_max)

\* list.sort computes the key of each member once
RECURSIVE Keyed(_)
Keyed(matches) ==
    IF Len(matches) = 0 THEN <<>>
    ELSE <<[key |-> sort_key(matches[1]), item |-> matches[1]]>>
         \o Keyed(Tail(matches))

\* the stable ascending sort of keyed members
RECURSIVE SortKeyed(_)
SortKeyed(seq) ==
    IF Len(seq) = 0 THEN <<>>
    ELSE LET x     == seq[Len(seq)]
             front == SortKeyed(SubSeq(seq, 1, Len(seq) - 1))
             n     == Cardinality({i \in 1..Len(front) : TupleLE(front[i].key, x.key)})
         IN  SubSeq(front, 1, n) \o <<x>> \o SubSeq(front, n + 1, Len(front))

RECURSIVE Items(_)
Items(seq) == IF Len(seq) = 0 THEN <<>> ELSE <<seq[1].item>> \o Items(Tail(seq))

\* matches.sort(key = sort_key)
SortMatches(matches) == Items(SortKeyed(Keyed(matches)))

\* MatchesResponse (scraped_at and date_range, two texts made from the
\* clock, are left out)
MatchesResponse(matches) ==
    [kind |-> "response", total_matches |-> Len(matches), matches |-> matches]

\* GET /matches
GetMatches ==
    /\ pc = "get_matches"
    /\ LET target_date      == MinusDays(input.now, 2)
           filtered_matches == filter_matches_by_date(input.matches, target_date)
           sorted_matches   == SortMatches(filtered_matches)
           limited_matches  == SubSeq(sorted_matches, 1,
                                      IF Len(sorted_matches) < 8
                                      THEN Len(sorted_matches) ELSE 8)
       IN  result' = MatchesResponse(limited_matches)
    /\ trace' = Append(trace, "get_matches")
    /\ pc' = "responded"
    /\ UNCHANGED <<input, hashSeed>>

\* GET /matches/all
GetAllMatches ==
    /\ pc = "get_all_matches"
    /\ result' = MatchesResponse(SortMatches(input.matches))
    /\ trace' = Append(trace, "get_all_matches")
    /\ pc' = "responded"
    /\ UNCHANGED <<input, hashSeed>>

\* requests.get or raise_for_status raises in either handler
ListingFetchFails ==
    /\ pc \in {"get_matches", "get_all_matches"}
    /\ \E e \in FetchErrors :
          result' = HTTPException(500, "Failed to fetch data", e)
    /\ trace' = Append(trace, pc)
    /\ pc' = "responded"
    /\ UNCHANGED <<input, hashSeed>>

ListingNext == GetMatches \/ GetAllMatches \/ ListingFetchFails

---------------------------------------------------------------------------
(* SpecListing: one request to /matches or /matches/all *)

MaxMatches == 3

\* n written with at least w digits
RECURSIVE Pad(_, _)
Pad(n, w) == IF Len(NatStr(n)) >= w THEN NatStr(n)
             ELSE <<"0">> \o Pad(n, w - 1)

\* the date of a week title as the site writes it
DateText(d, m, y) == Pad(d, 2) \o <<"-">> \o Pad(m, 2) \o <<"-">> \o Pad(y, 4)

Match(match_id, status, date) ==
    [match_id |-> match_id, status |-> status, date |-> date]

\* a block of fixtures of the page, in the order of the page: seven dated
\* from the second to the fifth of March 2024 and one of the 29th of
\* February
ListedBlock ==
    << Match(<<"f", "1">>, "finished", DateText(2, 3, 2024)),
       Match(<<"f", "2">>, "upcoming", DateText(4, 3, 2024)),
       Match(<<"f", "3">>, "upcoming", DateText(3, 3, 2024)),
       Match(<<"f", "4">>, "upcoming", DateText(4, 3, 2024)),
       Match(<<"f", "5">>, "finished", DateText(2, 3, 2024)),
       Match(<<"f", "6">>, "upcoming", DateText(5, 3, 2024)),
       Match(<<"f", "7">>, "finished", DateText(29, 2, 2024)),
       Match(<<"f", "8">>, "upcoming", DateText(3, 3, 2024)) >>

\* status and date of the further fixtures: live with and without a date,
\* the first of March, a date that is none (31st of February), and no
\* date at all
FixtureKinds ==
    { <<"live", <<"S", "u", "n", " ">> \o DateText(3, 3, 2024)>>,
      <<"live", <<>>>>,
      <<"finished", DateText(1, 3, 2024)>>,
      <<"upcoming", DateText(31, 2, 2024)>>,
      <<"finished", <<>>>> }

\* the fixtures numbered in the order of the page
RECURSIVE Numbered(_, _)
Numbered(kinds, i) ==
    IF Len(kinds) = 0 THEN <<>>
    ELSE <<Match(Str(i), kinds[1][1], kinds[1][2])>> \o Numbered(Tail(kinds), i + 1)

\* the pages: up to MaxMatches fixtures, alone or after the block
ScrapedPages ==
    {Numbered(k, 1) : k \in SeqsUpTo(FixtureKinds, MaxMatches)}
    \cup {ListedBlock \o Numbered(k, 1) : k \in SeqsUpTo(FixtureKinds, MaxMatches)}

\* datetime.now(): the third of March 2024 at midnight, one microsecond
\* later, and at noon
RequestTimes ==
    {<<Ordinal(2024, 3, 3), 0, 0>>,
     <<Ordinal(2024, 3, 3), 0, 1>>,
     <<Ordinal(2024, 3, 3), 43200, 0>>}

ListingInit ==
    /\ pc \in {"get_matches", "get_all_matches"}
    /\ input \in [matches : ScrapedPages, now : RequestTimes]
    /\ result = Pending
    /\ hashSeed = 0
    /\ trace = <<>>

SpecListing == ListingInit /\ [][ListingNext]_vars

Members(seq) == {seq[i] : i \in 1..Len(seq)}

\* a comes no later than b in the order of the listing
ListedBefore(a, b) ==
    \/ a.status = "live"
    \/ /\ b.status # "live"
       /\ \/ parse_arabic_date(b.date) = NoDate
          \/ /\ parse_arabic_date(a.date) # NoDate
             /\ TupleLE(parse_arabic_date(a.date), parse_arabic_date(b.date))

\* the matches a handler lists: all of the page, or those the filter keeps
Listed ==
    IF trace = <<"get_all_matches">> THEN input.matches
    ELSE filter_matches_by_date(input.matches, MinusDays(input.now, 2))

\* C12: in a returned listing every live match precedes every other match,
\* the other matches are in non-decreasing order of parsed date with the
\* matches without a parsable date last; /matches returns the first 8 of
\* that order at most, /matches/all returns every match of the page.
C12_ListingOrder ==
    (pc = "responded" /\ result.kind = "response") =>
        LET out == result.matches
        IN  /\ \A i, j \in 1..Len(out) :
                  i < j => /\ out[j].status = "live" => out[i].status = "live"
                           /\ ListedBefore(out[i], out[j])
                           /\ out[i] # out[j]
            /\ Members(out) \subseteq Members(Listed)
            /\ \A m \in Members(Listed) \ Members(out) :
                  \A k \in 1..Len(out) : ListedBefore(out[k], m)
            /\ result.total_matches = Len(out)
            /\ trace = <<"get_matches">> =>
                  Len(out) = (IF Len(Listed) < 8 THEN Len(Listed) ELSE 8)
            /\ trace = <<"get_all_matches">> =>
                  /\ Len(out) = Len(input.matches)
                  /\ Members(out) = Members(input.matches)

C12_Witness ==
    /\ pc = "responded"
    /\ trace = <<"get_matches">>
    /\ result.kind = "response"
    /\ Len(Listed) > 8
    /\ result.total_matches = 8
    /\ result.matches[1].status = "live"
    /\ \E i \in 1..Len(input.matches) :
          i > 1 /\ input.matches[i] = result.matches[1]
    /\ parse_arabic_date(result.matches[8].date) = datetime(2024, 3, 4)

\* the matches of the page that the day-granular rule keeps
KeptByDay ==
    {m \in Members(input.matches) :
        \/ /\ parse_arabic_date(m.date) # NoDate
           /\ parse_arabic_date(m.date)[1] >= input.now[1] - 2
        \/ /\ parse_arabic_date(m.date) = NoDate
           /\ m.status \in {"live", "upcoming"}}

\* C14: /matches keeps exactly the matches whose parsed date is on or after
\* the day two days before the request, whatever the time of day of the
\* request, plus the matches without a parsable date that are live or
\* upcoming (stated for pages of at most 8 matches, which the cap leaves
\* whole).
C14_FilterByDay ==
    (/\ pc = "responded" /\ result.kind = "response"
     /\ trace = <<"get_matches">> /\ Len(input.matches) <= 8)
        => Members(result.matches) = KeptByDay

---------------------------------------------------------------------------
(* SpecPens: parse_penalties applied to a shootout block *)

MaxKicks == 3

\* the text of the i-th <li>: the name with blanks and a note around it
TakerText(i) ==
    IF i % 2 = 1 THEN <<" ", "P">> \o Str(i) \o <<" ", "(", "c", ")">>
    ELSE <<"P">> \o Str(i) \o <<"\n", "x">>

TakerName(i) == <<"P">> \o Str(i)

RECURSIVE TakerTexts(_)
TakerTexts(n) == IF n = 0 THEN <<>> ELSE Append(TakerTexts(n - 1), TakerText(n))

\* m shot items, scored and missed in turn; each item is read by itself
RECURSIVE ShotItems(_, _)
ShotItems(m, first) ==
    IF m = 0 THEN <<>> ELSE <<first>> \o ShotItems(m - 1, ~first)

TeamItems ==
    {[team_a |-> a, names |-> TakerTexts(n), shots |-> ShotItems(m, f)] :
        a \in BOOLEAN, n \in 0..MaxKicks, m \in 0..MaxKicks, f \in BOOLEAN}

\* the blocks: no block, or a block of at most two team items
PensBlocks ==
    {NoBlock} \cup
    ([has_result : {TRUE},
      result : {<<"(", "4", " ", "-", "3", ")">>, <<"5">>, <<>>},
      teams : SeqsUpTo(TeamItems, 2)]
     \cup [has_result : {FALSE}, result : {<<>>}, teams : SeqsUpTo(TeamItems, 2)])

PensInit ==
    /\ pc = "parse_penalties"
    /\ input \in PensBlocks
    /\ result = NoPens
    /\ hashSeed = 0
    /\ trace = <<>>

ParsePenalties ==
    /\ pc = "parse_penalties"
    /\ result' = parse_penalties(input)
    /\ pc' = "returned"
    /\ UNCHANGED <<input, hashSeed, trace>>

SpecPens == PensInit /\ [][ParsePenalties]_vars

Min(a, b) == IF a < b THEN a ELSE b

TeamNameOf(team_div) == IF team_div.team_a THEN "Home" ELSE "Away"

\* C13: the kicks reported for a team pair name i with outcome i and stop
\* at the end of the shorter list: there are min(names, outcomes) of them
\* (3 names and 2 outcomes give 2).  Of two team items of the same team the
\* later is the one reported.
C13_ZipTruncates ==
    (pc = "returned" /\ input # NoBlock) =>
        LET teams == input.teams
            last  == {i \in 1..Len(teams) :
                        \A j \in (i + 1)..Len(teams) :
                            TeamNameOf(teams[j]) # TeamNameOf(teams[i])}
        IN  /\ result.type = "pens"
            /\ DOMAIN result.PenaltyTakers = {TeamNameOf(teams[i]) : i \in 1..Len(teams)}
            /\ \A i \in last :
                  LET kicks == result.PenaltyTakers[TeamNameOf(teams[i])]
                  IN  /\ Len(kicks) = Min(Len(teams[i].names), Len(teams[i].shots))
                      /\ \A k \in 1..Len(kicks) :
                            /\ kicks[k].player = TakerName(k)
                            /\ kicks[k].result = "scored" <=> teams[i].shots[k]
                            /\ kicks[k].result = "missed" <=> ~teams[i].shots[k]
                      /\ (Len(teams[i].names) = 3 /\ Len(teams[i].shots) = 2)
                            => Len(kicks) = 2

C13_Witness ==
    /\ pc = "returned"
    /\ input # NoBlock
    /\ Len(input.teams) = 2
    /\ input.teams[1].team_a /\ ~input.teams[2].team_a
    /\ Len(input.teams[1].names) = 3 /\ Len(input.teams[1].shots) = 2
    /\ Len(input.teams[2].names) = 1 /\ Len(input.teams[2].shots) = 3
    /\ Len(result.PenaltyTakers["Home"]) = 2
    /\ Len(result.PenaltyTakers["Away"]) = 1
    /\ result.pens_score = <<"4", " ", "-", " ", "3">>

---------------------------------------------------------------------------
(* SpecClock: adjust_match_time applied to the content of the panel row *)

MaxHour == 13

\* the second word of the content: evening, morning, none, another word
PeriodWords == {EVENING_MARKED, EVENING, MORNING_MARKED, MORNING, <<>>, <<"G", "M", "T">>}

\* h:mm and the word, as the site writes them; the hour with or without
\* a leading zero
ClockText(h, mm, word, padded) ==
    (IF padded THEN Fmt02(h) ELSE Str(h)) \o <<":">> \o Fmt02(mm)
    \o (IF word = <<>> THEN <<>> ELSE <<" ">> \o word)

\* contents that are no h:mm: empty, a word, no colon, seconds, the word
\* not set apart, letters for the hour, no hour
OtherContents ==
    { <<>>, <<"T", "B", "D">>,
      <<"7", " ">> \o EVENING,
      <<"7", ":", "3", "0", ":", "0", "0", " ">> \o EVENING,
      <<"7", ":", "3", "0">> \o EVENING,
      <<"x", ":", "3", "0", " ">> \o EVENING,
      <<":", "3", "0", " ">> \o MORNING }

\* the content of the row, with what it was written from (hour -1: not
\* written from a clock time)
ClockInputs ==
    {[time_str |-> ClockText(h, mm, w, p), hour |-> h, minute |-> mm, period |-> w] :
        h \in 0..MaxHour, mm \in {0, 7, 30, 59}, w \in PeriodWords, p \in BOOLEAN}
    \cup {[time_str |-> t, hour |-> -1, minute |-> -1, period |-> <<>>] :
            t \in OtherContents}

ClockInit ==
    /\ pc = "adjust_match_time"
    /\ input \in ClockInputs
    /\ result = None
    /\ hashSeed = 0
    /\ trace = <<>>

AdjustMatchTime ==
    /\ pc = "adjust_match_time"
    /\ result' = adjust_match_time(input.time_str)
    /\ pc' = "returned"
    /\ UNCHANGED <<input, hashSeed, trace>>

SpecClock == ClockInit /\ [][AdjustMatchTime]_vars

IsEvening(w) == w \in {EVENING_MARKED, EVENING}

IsMorning(w) == w \in {MORNING_MARKED, MORNING}

\* C15: for h:mm with 1 <= h <= 12 and 0 <= mm <= 59 followed by a morning
\* or evening word the result is the 24-hour conversion (12 in the morning
\* is 0, 12 in the evening is 12, the other evening hours + 12) plus 8 hours
\* modulo 24, the minutes unchanged, both written with two digits, so the
\* hour is in 0..23; a content that is no clock time comes back unchanged.
C15_ClockShift ==
    pc = "returned" =>
        /\ (/\ 1 <= input.hour /\ input.hour <= 12
            /\ IsEvening(input.period) \/ IsMorning(input.period)) =>
              LET h24 == IF IsEvening(input.period)
                         THEN (IF input.hour = 12 THEN 12 ELSE input.hour + 12)
                         ELSE (IF input.hour = 12 THEN 0 ELSE input.hour)
                  out == (h24 + 8) % 24
              IN  /\ Len(result) = 5
                  /\ result[3] = ":"
                  /\ AllDigits(SubSeq(result, 1, 2)) /\ AllDigits(SubSeq(result, 4, 5))
                  /\ DigitsVal(SubSeq(result, 1, 2)) = out
                  /\ DigitsVal(SubSeq(result, 1, 2)) \in 0..23
                  /\ DigitsVal(SubSeq(result, 4, 5)) = input.minute
        /\ input.hour = -1 => result = input.time_str

C15_Witness ==
    /\ pc = "returned"
    /\ input.time_str = <<"1", "1", ":", "5", "9", " ">> \o EVENING_MARKED
    /\ result = <<"0", "7", ":", "5", "9">>

---------------------------------------------------------------------------
(* SpecWindows: build_match_info on events at the edges of the windows *)

\* one event at each edge of the four windows, before the first and after
\* the last
WindowFragments ==
    << Fragment("for-team-a", "goal", "X", "None", FALSE, <<"0", "'">>),
       Fragment("for-team-a", "goal", "X", "None", FALSE, <<"1", "'">>),
       Fragment("for-team-a", "goal", "X", "None", FALSE, T45p),
       Fragment("for-team-a", "goal", "X", "None", FALSE, <<"4", "6", "'">>),
       Fragment("for-team-a", "goal", "X", "None", FALSE, <<"9", "1", "'">>),
       Fragment("for-team-a", "goal", "X", "None", FALSE, <<"1", "0", "5", "'">>),
       Fragment("for-team-a", "goal", "X", "None", FALSE, <<"1", "2", "0", "'">>),
       Fragment("for-team-a", "goal", "X", "None", FALSE, <<"1", "2", "1", "'">>) >>

\* the four stops that open a window, and a title with a time of its own
\* that is named like a period stop: it is an event of the pool
WindowTitles ==
    << <<"Kickoff">>, <<"HalfTime">>, <<"ExtraTime1">>, <<"ExtraTime2">>,
       <<"9", "0", "'", "HalfTime">> >>

WindowsInit ==
    /\ pc = "build_match_info"
    /\ input \in [fragments : ListsOf(WindowFragments, MaxEvents),
                  titles : ListsOf(WindowTitles, MaxStops),
                  pens : {NoBlock}]
    /\ result = [events |-> <<>>]
    /\ hashSeed \in DocSeeds(input)
    /\ trace = <<>>

SpecWindows == WindowsInit /\ [][BuildMatchInfo]_vars

\* the stop that opens each window, and the window's first and last minute
PeriodWindows ==
    << [stop |-> <<"Kickoff">>,    first |-> 1,   last |-> 45],
       [stop |-> <<"HalfTime">>,   first |-> 46,  last |-> 90],
       [stop |-> <<"ExtraTime1">>, first |-> 91,  last |-> 105],
       [stop |-> <<"ExtraTime2">>, first |-> 106, last |-> 120] >>

Observed(name) == \E k \in 1..Len(input.titles) : input.titles[k] = name

\* C16: an extracted event (a timed title included) is in the timeline if
\* and only if its base minute lies in the window of a period stop that is
\* among the document's stops; events of base 0 or above 120, and events
\* whose window's stop is absent, are not in the output.
C16_KeptIffWindowOpen ==
    pc = "returned" =>
        LET extracted == Canon(unique_events(input.fragments))
                         \o extract_time_stops(input.titles)
        IN  \A k \in 1..Len(extracted) :
                LET e    == extracted[k]
                    base == TimeKey(e)[1]
                    open == \E w \in 1..4 :
                               /\ PeriodWindows[w].first <= base
                               /\ base <= PeriodWindows[w].last
                               /\ Observed(PeriodWindows[w].stop)
                IN  /\ Count(trace, e) > 0 <=> open
                    /\ Count(result.events, e) > 0 <=> open
                    /\ (base = 0 \/ base > 120) => Count(result.events, e) = 0

C16_Witness ==
    /\ pc = "returned"
    /\ Observed(<<"Kickoff">>) /\ ~Observed(<<"HalfTime">>)
    /\ Observed(<<"ExtraTime2">>)
    /\ Len(input.fragments) = 2
    /\ TimeKey(NonNull(event_data(input.fragments[1])))[1] = 46
    /\ TimeKey(NonNull(event_data(input.fragments[2])))[1] = 120
    /\ Count(trace, NonNull(event_data(input.fragments[1]))) = 0
    /\ Count(trace, NonNull(event_data(input.fragments[2]))) = 1

---------------------------------------------------------------------------
(* extract_match_info: one fixture link of the listing page *)

\* A fixture link (a.ajax-match-item) is read as
\*   live_class        whether the class live-match is set
\*   result_wrap       whether it holds div.result-wrap
\*   active_progress   whether it holds div.active-match-progress
\*   status_text, minute    whether the progress block holds
\*                     span.result-status-text, div.number
\*   first_team, second_team   whether div.first-team holds
\*                     div.first-team-result, and likewise the second
\*   first_span, second_span   whether the result wrapper holds
\*                     span.first-team-result, span.second-team-result
\*   match_date        whether the result wrapper holds b.match-date
\* The texts found are fixed; the fields that name the teams, the logos,
\* the date, the round and the link are copied and left out.
extract_match_info(match_elem) ==
    LET is_live == match_elem.live_class
        blank   == [status |-> "upcoming", home_score |-> None, away_score |-> None,
                    match_time |-> None, live_minute |-> None, live_status |-> None]
        found   ==
            IF ~match_elem.result_wrap THEN blank
            ELSE IF match_elem.active_progress \/ is_live
            THEN [blank EXCEPT
                    !.status = "live",
                    !.live_status = IF match_elem.active_progress /\ match_elem.status_text
                                    THEN <<"first half">> ELSE None,
                    !.live_minute = IF match_elem.active_progress /\ match_elem.minute
                                    THEN <<"3", "0">> ELSE None,
                    !.home_score = IF match_elem.first_team THEN <<"1">> ELSE None,
                    !.away_score = IF match_elem.second_team THEN <<"0">> ELSE None]
            ELSE IF match_elem.first_span
            THEN [blank EXCEPT
                    !.status = "finished",
                    !.home_score = IF match_elem.second_span THEN <<"2">> ELSE None,
                    !.away_score = IF match_elem.second_span THEN <<"1">> ELSE None]
            ELSE [blank EXCEPT
                    !.match_time = IF match_elem.match_date
                                   THEN <<"1", "8", ":", "0", "0">> ELSE None]
    IN  [status |-> found.status, home_score |-> found.home_score,
         away_score |-> found.away_score, match_time |-> found.match_time,
         live_minute |-> found.live_minute, live_status |-> found.live_status,
         is_live |-> (is_live \/ found.status = "live")]

---------------------------------------------------------------------------
(* SpecMatchInfo: extract_match_info applied to a fixture link *)

\* the links: the elements looked for inside the result wrapper or inside
\* the progress block are there only when that element is
MatchElems ==
    {e \in [live_class : BOOLEAN, result_wrap : BOOLEAN, active_progress : BOOLEAN,
            status_text : BOOLEAN, minute : BOOLEAN,
            first_team : BOOLEAN, second_team : BOOLEAN,
            first_span : BOOLEAN, second_span : BOOLEAN, match_date : BOOLEAN] :
        /\ (e.status_text \/ e.minute) => e.active_progress
        /\ (e.first_span \/ e.second_span \/ e.match_date) => e.result_wrap}

MatchInfoInit ==
    /\ pc = "extract_match_info"
    /\ input \in MatchElems
    /\ result = None
    /\ hashSeed = 0
    /\ trace = <<>>

ExtractMatchInfo ==
    /\ pc = "extract_match_info"
    /\ result' = extract_match_info(input)
    /\ pc' = "returned"
    /\ UNCHANGED <<input, hashSeed, trace>>

SpecMatchInfo == MatchInfoInit /\ [][ExtractMatchInfo]_vars

\* C17: for every Match that extract_match_info returns is_live is true
\* if and only if status is "live", and status is one of upcoming, live,
\* finished, postponed, whatever the link holds.
C17_LiveIffStatusLive ==
    pc = "returned" =>
        /\ result.is_live <=> result.status = "live"
        /\ result.status \in {"upcoming", "live", "finished", "postponed"}

=============================================================================
